---- MODULE Spec2Model ----
(***************************************************************************)
(* Model of the code-intelligence layer of code-browser                    *)
(* (internal/analysis): jump-to-definition over a cached SCIP index with   *)
(* a text-search fallback.                                                 *)
(*                                                                         *)
(*   Spec      the lookup service: HTTP handler, GetDefinition, the SCIP   *)
(*             cache, the index file on disk, the blob reader and the      *)
(*             content-search engine, one step per call the code makes.    *)
(*   SpecScip  the SCIP lookup (document search, cursor-to-symbol,         *)
(*             definition collection) applied to indexes drawn from        *)
(*             bounded sets.                                               *)
(*   SpecWord  extractWordAtPosition applied to lines drawn from bounded   *)
(*             sets.                                                       *)
(*   SpecRefs  the references lookup applied to indexes drawn from the     *)
(*             same bounded sets.                                          *)
(*   SpecConc  the lookup service with two requests in flight.             *)
(*   SpecRg    one run of the rg child process in                          *)
(*             RipgrepEngine.SearchContent.                                *)
(*   SpecRegistry  repo.Provider under two concurrent admin calls.         *)
(*   SpecBlob  core.Service.GetFileContent and its cache beside registry   *)
(*             changes.                                                    *)
(*   SpecAuth  the admin routes behind Handlers.AuthMiddleware.            *)
(***************************************************************************)
EXTENDS Integers, Sequences, FiniteSets, TLC

\* ------------------------------------------------------------------ bounds
\* Largest 0-based line an occurrence of a drawn index starts or ends on.
MaxLine == 1
\* Largest column of a drawn occurrence range or cursor.
MaxCol == 1
\* Longest source line (in code points) drawn for extractWordAtPosition.
MaxLen == 4
\* Most match lines the content-search engine returns for one query.
MaxMatches == 11
\* Most lines the rg child process writes to its stdout in one run.
MaxRgLines == 3

\* --------------------------------------------------------- program constants
\* scip.SymbolRole_Definition: the role bit tested at service.go:185.
SymbolRole_Definition == 1
\* The fallback stops appending at 10 entries (service.go:139).
FallbackLimit == 10

\* ------------------------------------------------------------------ helpers
Min(S) == CHOOSE x \in S : \A y \in S : x <= y

\* ============================================================ SCIP lookup
\* An occurrence is [Range, Symbol, SymbolRoles]; a document is
\* [RelativePath, Occurrences]; an index is a sequence of documents.

\* occ.SymbolRoles & int32(scip.SymbolRole_Definition) != 0
IsDefinitionRole(roles) == (roles \div SymbolRole_Definition) % 2 = 1

\* OccContains with the start column taken as exclusive (> for >=).
OccContains_StartExclusive(occ, line, char) ==
    LET startLine == occ.Range[1]
        startChar == occ.Range[2]
        endLine   == IF Len(occ.Range) = 3 THEN startLine ELSE occ.Range[3]
        endChar   == IF Len(occ.Range) = 3 THEN occ.Range[3] ELSE occ.Range[4]
    IN  IF line < startLine \/ line > endLine THEN FALSE
        ELSE IF startLine = endLine THEN char > startChar /\ char < endChar
        ELSE IF line = startLine THEN char > startChar
        ELSE IF line = endLine THEN char < endChar
        ELSE TRUE

\* The body of the loop of findSymbolAtPosition for one occurrence: TRUE when
\* the loop returns occ.Symbol at this occurrence.
OccContains(occ, line, char) ==
    LET startLine == occ.Range[1]
        startChar == occ.Range[2]
        endLine   == IF Len(occ.Range) = 3 THEN startLine ELSE occ.Range[3]
        endChar   == IF Len(occ.Range) = 3 THEN occ.Range[3] ELSE occ.Range[4]
    IN  IF line < startLine \/ line > endLine THEN FALSE
        ELSE IF startLine = endLine THEN char >= startChar /\ char < endChar
        ELSE IF line = startLine THEN char >= startChar
        ELSE IF line = endLine THEN char < endChar
        ELSE TRUE

Max(S) == CHOOSE x \in S : \A y \in S : x >= y

\* findSymbolAtPosition returning at the last containing occurrence.
findSymbolAtPosition_LastMatch(doc, line, char) ==
    LET hits == {i \in 1..Len(doc.Occurrences) :
                    OccContains(doc.Occurrences[i], line, char)}
    IN  IF hits = {} THEN "" ELSE doc.Occurrences[Max(hits)].Symbol

\* findSymbolAtPosition: the symbol of the first occurrence the loop returns
\* at, "" when the loop runs to its end.
findSymbolAtPosition(doc, line, char) ==
    LET hits == {i \in 1..Len(doc.Occurrences) :
                    OccContains(doc.Occurrences[i], line, char)}
    IN  IF hits = {} THEN "" ELSE doc.Occurrences[Min(hits)].Symbol

\* The first loop of getDefinitionFromSCIP: the first document whose
\* RelativePath equals filePath (0 when targetDoc stays nil).
TargetDoc(index, filePath) ==
    LET hits == {i \in 1..Len(index) : index[i].RelativePath = filePath}
    IN  IF hits = {} THEN 0 ELSE Min(hits)

\* ScipEntry with the end line of a 4-element range left 0-based.
ScipEntry_EndLineUnshifted(path, occ, repoIDStr) ==
    LET r == occ.Range
    IN  [Kind |-> "definition", RepoID |-> repoIDStr, FilePath |-> path,
         Range |-> [StartLine |-> r[1] + 1, StartColumn |-> r[2],
                    EndLine |-> IF Len(r) = 4 THEN r[3] ELSE r[1] + 1,
                    EndColumn |-> IF Len(r) = 4 THEN r[4] ELSE r[3]],
         Source |-> "scip"]

\* ScipEntry without the 3-element branch: the end column stays the start
\* column.
ScipEntry_NoSingleLineBranch(path, occ, repoIDStr) ==
    LET r == occ.Range
    IN  [Kind |-> "definition", RepoID |-> repoIDStr, FilePath |-> path,
         Range |-> [StartLine |-> r[1] + 1, StartColumn |-> r[2],
                    EndLine |-> IF Len(r) = 4 THEN r[3] + 1 ELSE r[1] + 1,
                    EndColumn |-> IF Len(r) = 4 THEN r[4] ELSE r[2]],
         Source |-> "scip"]

\* The DefinitionResponse built for one matching occurrence.
ScipEntry(path, occ, repoIDStr) ==
    LET r == occ.Range
        base == [StartLine |-> r[1] + 1, StartColumn |-> r[2],
                 EndLine |-> r[1] + 1, EndColumn |-> r[2]]
    IN  [Kind |-> "definition", RepoID |-> repoIDStr, FilePath |-> path,
         Range |-> IF Len(r) = 4
                   THEN [base EXCEPT !.EndLine = r[3] + 1, !.EndColumn = r[4]]
                   ELSE IF Len(r) = 3
                   THEN [base EXCEPT !.EndLine = r[1] + 1, !.EndColumn = r[3]]
                   ELSE base,
         Source |-> "scip"]

\* The nested loops of getDefinitionFromSCIP: the (document path, occurrence)
\* pairs visited in document-then-occurrence order.
RECURSIVE DocPairs(_, _)
DocPairs(doc, n) ==
    IF n = 0 THEN << >>
    ELSE Append(DocPairs(doc, n - 1),
                [path |-> doc.RelativePath, occ |-> doc.Occurrences[n]])

RECURSIVE IndexPairs(_, _)
IndexPairs(index, n) ==
    IF n = 0 THEN << >>
    ELSE IndexPairs(index, n - 1) \o DocPairs(index[n], Len(index[n].Occurrences))

\* IsWanted without the test of the role bit.
IsWanted_RoleIgnored(occ, symbol) == occ.Symbol = symbol

\* The condition of the if inside the nested loops.
IsWanted(occ, symbol) ==
    occ.Symbol = symbol /\ IsDefinitionRole(occ.SymbolRoles)

\* The pairs the loops append an entry for.
MatchedPairs(index, symbol) ==
    LET Keep(p) == IsWanted(p.occ, symbol)
    IN  SelectSeq(IndexPairs(index, Len(index)), Keep)

\* getDefinitionFromSCIP from the document search on (service.go:166-209):
\* err is "" for a nil error; from is the sequence of (path, occurrence)
\* pairs the entries of defs were built from, in the same order.
ScipLookup(index, filePath, line, char, repoIDStr) ==
    LET d == TargetDoc(index, filePath)
    IN  IF d = 0 THEN [err |-> "doc not found", defs |-> << >>, from |-> << >>]
        ELSE LET symbol == findSymbolAtPosition(index[d], line, char)
             IN  IF symbol = ""
                 THEN [err |-> "symbol not found", defs |-> << >>, from |-> << >>]
                 ELSE LET m == MatchedPairs(index, symbol)
                      IN  [err  |-> "",
                           defs |-> [i \in 1..Len(m) |->
                                       ScipEntry(m[i].path, m[i].occ, repoIDStr)],
                           from |-> m]

\* ====================================================== word extraction
\* A line is the sequence of its code points ([]rune(lineText)); a code point
\* is a one-character string. The drawn alphabet has letters, a digit, the
\* underscore and two non-word code points.
LetterRunes == {"a", "Z"}
DigitRunes == {"7"}
OtherRunes == {" ", "("}
Runes == LetterRunes \cup DigitRunes \cup {"_"} \cup OtherRunes

\* unicode.IsLetter(r) || unicode.IsDigit(r) || r == '_'
isWordChar(r) == r \in LetterRunes \/ r \in DigitRunes \/ r = "_"

\* for start > 0 && isWordChar(runes[start-1]) { start-- }
RECURSIVE WordStart(_, _)
WordStart(runes, start) ==
    IF start > 0 /\ isWordChar(runes[start]) THEN WordStart(runes, start - 1)
    ELSE start

\* for end < len(runes) && isWordChar(runes[end]) { end++ }
RECURSIVE WordEnd(_, _)
WordEnd(runes, end) ==
    IF end < Len(runes) /\ isWordChar(runes[end + 1]) THEN WordEnd(runes, end + 1)
    ELSE end

\* The bounds check that opens extractWordAtPosition (0-based column).
ColumnInBounds(runes, column) == ~(column < 0 \/ column >= Len(runes))

\* extractWordAtPosition without the step back to the preceding code point.
extractWordAtPosition_NoStepBack(runes, column) ==
    IF ~ColumnInBounds(runes, column) THEN << >>
    ELSE IF ~isWordChar(runes[column + 1]) THEN << >>
    ELSE SubSeq(runes, WordStart(runes, column) + 1, WordEnd(runes, column))

\* extractWordAtPosition; runes[i] of the code is runes[i + 1] here, and the
\* empty string is the empty sequence.
extractWordAtPosition(runes, column) ==
    IF ~ColumnInBounds(runes, column) THEN << >>
    ELSE LET col == IF ~isWordChar(runes[column + 1])
                    THEN IF column > 0 /\ isWordChar(runes[column])
                         THEN column - 1
                         ELSE -1
                    ELSE column
         IN  IF col = -1 THEN << >>
             ELSE SubSeq(runes, WordStart(runes, col) + 1, WordEnd(runes, col))

\* ================================================================ state
VARIABLES
    engineKind,  \* which search.Engine the Service was built with
    repoMap,     \* Provider.repoMap: the registered repositories by RepoID
    disk,        \* the index file at each scipPath: missing, corrupt or valid
    ScipCache,   \* Service.ScipCache: the parsed index under each cached key
    pc,          \* per request worker: where its handler stands
    req,         \* per request worker: the decoded DefinitionRequest
    loc,         \* per request worker: the locals of GetDefinition
    resp,        \* per request worker: the HTTP status and body written
    fnIn,        \* the input drawn for a function applied on its own
    fnOut        \* its result

svcVars == <<engineKind, repoMap, disk, ScipCache, pc, req, loc, resp>>
fnVars == <<fnIn, fnOut>>
vars == <<engineKind, repoMap, disk, ScipCache, pc, req, loc, resp, fnIn, fnOut>>

\* The service at rest with no worker, for the specifications that apply one
\* function on its own.
ServiceIdle ==
    /\ engineKind = "zoekt"
    /\ repoMap = << >>
    /\ disk = << >>
    /\ ScipCache = << >>
    /\ pc = << >>
    /\ req = << >>
    /\ loc = << >>
    /\ resp = << >>

\* ===================================================== SpecScip: inputs
Symbols == {"symA", "symB"}
\* 0: a plain reference; 1: Definition; 8: ReadAccess without Definition.
Roles == {0, SymbolRole_Definition, 8}

Ranges3 ==
    {<<sl, sc, ec>> : sl \in 0..MaxLine, sc \in 0..MaxCol, ec \in 0..MaxCol}
Ranges4 ==
    {<<sl, sc, el, ec>> : sl \in 0..MaxLine, sc \in 0..MaxCol,
                          el \in 0..MaxLine, ec \in 0..MaxCol}
\* The producer's invariant: startLine <= endLine, and startColumn <=
\* endColumn on one line.
WellFormedRange(r) ==
    IF Len(r) = 3 THEN r[2] <= r[3]
    ELSE r[1] <= r[3] /\ (r[1] = r[3] => r[2] <= r[4])
Ranges == {r \in Ranges3 \cup Ranges4 : WellFormedRange(r)}

Occs == [Range : Ranges, Symbol : Symbols, SymbolRoles : Roles]
\* Occurrences that span the drawn area, to overlap every other one.
CoveringOccs ==
    [Range : {<<0, 0, MaxCol>>, <<0, 0, MaxLine, MaxCol>>},
     Symbol : Symbols, SymbolRoles : {0, SymbolRole_Definition}]

\* An occurrence that carries a syntax kind only: its Symbol is empty.
SyntaxOccs == {[Range |-> <<0, 0, MaxCol>>, Symbol |-> "", SymbolRoles |-> 0]}

OccLists ==
    {<< >>} \cup {<<o>> : o \in Occs}
            \cup {<<o, p>> : o \in Occs, p \in CoveringOccs}
            \cup {<<p, o>> : o \in Occs, p \in CoveringOccs}
            \cup {<<y>> : y \in SyntaxOccs}
            \cup {<<y, o>> : y \in SyntaxOccs, o \in Occs}

\* The second document holds nothing or one more definition of symA.
OtherDocLists ==
    {<< >>, <<[Range |-> <<0, 0, 1>>, Symbol |-> "symA",
               SymbolRoles |-> SymbolRole_Definition + 8]>>}

\* The second document is another file or, as nothing in the format forbids,
\* a second document for the same path.
SecondPaths == {"b.py", "a.go"}

DrawnIndexes ==
    {<<[RelativePath |-> "a.go", Occurrences |-> a],
       [RelativePath |-> p, Occurrences |-> b]>> :
        a \in OccLists, b \in OtherDocLists, p \in SecondPaths}

\* Cursors: every position of a.go in the drawn area, one in b.py, and one in
\* a file the index has no document for.
DrawnCursors ==
    {[filePath |-> "a.go", line |-> l, char |-> c] :
        l \in 0..MaxLine, c \in 0..MaxCol}
    \cup {[filePath |-> "b.py", line |-> 0, char |-> 0],
          [filePath |-> "c.ts", line |-> 0, char |-> 0]}

InitScip ==
    /\ ServiceIdle
    /\ fnIn \in {[op |-> "scip", index |-> ix, at |-> cur] :
                    ix \in DrawnIndexes, cur \in DrawnCursors}
    /\ fnOut = [done |-> FALSE]

\* getDefinitionFromSCIP (from the document search on) applied to the input.
ApplyScip ==
    /\ fnIn.op = "scip"
    /\ ~fnOut.done
    /\ fnOut' = [done |-> TRUE,
                 out |-> ScipLookup(fnIn.index, fnIn.at.filePath,
                                    fnIn.at.line, fnIn.at.char, "1")]
    /\ UNCHANGED <<svcVars, fnIn>>

NextScip == ApplyScip

SpecScip == InitScip /\ [][NextScip]_vars

\* ===================================================== SpecWord: inputs
DrawnLines == UNION {[1..k -> Runes] : k \in 0..MaxLen}
DrawnColumns == (-1)..(MaxLen + 1)

InitWord ==
    /\ ServiceIdle
    /\ fnIn \in {[op |-> "word", line |-> ln, column |-> c] :
                    ln \in DrawnLines, c \in DrawnColumns}
    /\ fnOut = [done |-> FALSE]

\* extractWordAtPosition applied to the input.
ApplyWord ==
    /\ fnIn.op = "word"
    /\ ~fnOut.done
    /\ fnOut' = [done |-> TRUE,
                 out |-> extractWordAtPosition(fnIn.line, fnIn.column)]
    /\ UNCHANGED <<svcVars, fnIn>>

NextWord == ApplyWord

SpecWord == InitWord /\ [][NextWord]_vars

\* ====================================================== the lookup service
\* HTTP statuses written by GetDefinitionHandler.
StatusOK == 200
StatusBadRequest == 400
StatusMethodNotAllowed == 405
StatusInternalServerError == 500
StatusUnauthorized == 401
StatusAccepted == 202

\* --- the registry (repo.Provider), read-only to the lookup
\* The Repository registered under each RepoID.
Repository(id) ==
    [RepoID |-> id, DataPath |-> <<"repos", id>>, SourcePath |-> <<"src", id>>]

\* strconv.ParseUint(s, 10, 32) over the drawn repoId strings; 0 stands for a
\* string that does not parse.
ParseUint(s) == CASE s = "1" -> 1 [] s = "9" -> 9 [] OTHER -> 0

\* strconv.FormatUint over the drawn RepoIDs.
FormatUint(id) == CASE id = 1 -> "1" [] id = 9 -> "9" [] OTHER -> "0"

\* Provider.GetRepoIDByString: the RepoID a repoId string names, 0 when it
\* names no registered repository.
GetRepoIDByString(map, s) ==
    IF ParseUint(s) \in DOMAIN map THEN ParseUint(s) ELSE 0

\* Provider.GetRepo: ok is the second result.
GetRepo(map, id) ==
    IF id \in DOMAIN map THEN [ok |-> TRUE, repo |-> map[id]]
    ELSE [ok |-> FALSE, repo |-> Repository(0)]

\* filepath.Join(repoInfo.DataPath, "scip", "index.scip")
ScipPath(repoInfo) == repoInfo.DataPath \o <<"scip", "index.scip">>

\* --- the index file on disk
NoFile == [state |-> "missing", index |-> << >>]
CorruptFile == [state |-> "corrupt", index |-> << >>]
ValidFile(ix) == [state |-> "valid", index |-> ix]

\* Two index files an indexer may leave at the path.
IndexV1 ==
    <<[RelativePath |-> "a.go",
       Occurrences |-> <<[Range |-> <<0, 0, 2>>, Symbol |-> "symA",
                          SymbolRoles |-> SymbolRole_Definition],
                         [Range |-> <<1, 0, 1>>, Symbol |-> "symB",
                          SymbolRoles |-> 0]>>]>>
IndexV2 ==
    <<[RelativePath |-> "b.py",
       Occurrences |-> <<[Range |-> <<0, 1, 1, 1>>, Symbol |-> "symA",
                          SymbolRoles |-> SymbolRole_Definition]>>],
      [RelativePath |-> "a.go",
       Occurrences |-> <<[Range |-> <<0, 1, 2>>, Symbol |-> "symA",
                          SymbolRoles |-> SymbolRole_Definition + 8]>>]>>
DiskIndexes == {IndexV1, IndexV2}
DiskFiles == {NoFile, CorruptFile} \cup {ValidFile(ix) : ix \in DiskIndexes}

\* StatOK with the error of os.Stat ignored.
StatOK_ErrorIgnored(file) == TRUE

\* os.Stat(scipPath) returns a nil error.
StatOK(file) == file.state # "missing"

\* readSCIPIndex with the error of proto.Unmarshal dropped: the index comes
\* back as far as it was filled.
readSCIPIndex_UnmarshalErrorDropped(file) ==
    IF file.state = "missing" THEN [err |-> "read index", index |-> << >>]
    ELSE [err |-> "", index |-> file.index]

\* readSCIPIndex: os.ReadFile then proto.Unmarshal.
readSCIPIndex(file) ==
    IF file.state = "missing" THEN [err |-> "read index", index |-> << >>]
    ELSE IF file.state = "corrupt" THEN [err |-> "unmarshal index", index |-> << >>]
    ELSE [err |-> "", index |-> file.index]

\* --- the blob reader (core.Service.GetFileContent) over the source tree at
\* HEAD; the tree does not change, so a cached blob equals a fresh read.
SourceTree ==
    [p \in {"a.go", "b.py"} |->
        IF p = "a.go" THEN << <<"a", "Z", "(">>, <<" ", "(", "7">> >>
        ELSE << <<"(", "_", "a">> >>]

GetFileContent(repoID, relPath) ==
    IF relPath \in DOMAIN SourceTree
    THEN [err |-> "", content |-> SourceTree[relPath]]
    ELSE [err |-> "blob", content |-> << >>]

\* The scanner loop of getDefinitionFromSearch: the text of the 0-based line,
\* "" when the loop ends without reaching it.
LineText(content, line) ==
    IF line >= 0 /\ line < Len(content) THEN content[line + 1] ELSE << >>

\* --- the content-search engine
\* The i-th match line of a result; the two orders tell a reordering apart.
Match(i, order) ==
    [Path |-> IF i % 2 = 1 THEN "a.go" ELSE "b.py",
     LineNum |-> IF order = "up" THEN i ELSE MaxMatches + 1 - i]
EngineResults ==
    {[i \in 1..n |-> Match(i, order)] : n \in 0..MaxMatches, order \in {"up", "down"}}

\* The first query of getDefinitionFromSearch.
FirstQuery(kind, symbol) ==
    IF kind = "zoekt" THEN [form |-> "sym", token |-> symbol]
    ELSE [form |-> "word", token |-> symbol]

\* The condition under which the second query is submitted.
RetriesQuery(kind, err, results) ==
    (err # "" \/ Len(results) = 0) /\ kind = "zoekt"

\* SearchEntry with the engine's line number turned 0-based.
SearchEntry_ZeroBasedLine(res, repoIDStr) ==
    [Kind |-> "search-result", RepoID |-> repoIDStr, FilePath |-> res.Path,
     Range |-> [StartLine |-> res.LineNum - 1, StartColumn |-> 0,
                EndLine |-> res.LineNum - 1, EndColumn |-> 0],
     Source |-> "search"]

\* The DefinitionResponse built for one match line.
SearchEntry(res, repoIDStr) ==
    [Kind |-> "search-result", RepoID |-> repoIDStr, FilePath |-> res.Path,
     Range |-> [StartLine |-> res.LineNum, StartColumn |-> 0,
                EndLine |-> res.LineNum, EndColumn |-> 0],
     Source |-> "search"]

\* LimitReached with > for >=.
LimitReached_OffByOne(n) == n > FallbackLimit

\* if len(definitions) >= 10 { break }
LimitReached(n) == n >= FallbackLimit

\* The loop that turns searchResults into definitions.
RECURSIVE SearchEntries(_, _, _, _)
SearchEntries(results, i, acc, repoIDStr) ==
    IF i > Len(results) THEN acc
    ELSE LET next == Append(acc, SearchEntry(results[i], repoIDStr))
         IN  IF LimitReached(Len(next)) THEN next
             ELSE SearchEntries(results, i + 1, next, repoIDStr)

\* --- the handler's response
\* The tail of GetDefinitionHandler: 500 with the error text, or 200 with the
\* encoded list.
Respond(defs, err) ==
    IF err # "" THEN [status |-> StatusInternalServerError, err |-> err, body |-> << >>]
    ELSE [status |-> StatusOK, err |-> "", body |-> defs]

\* --- requests
Workers == {1}
ValidRequests ==
    [Method : {"POST"}, Decodes : {TRUE}, RepoID : {"1"},
     FilePath : {"a.go", "b.py", "c.ts"},
     Line : 0..MaxLine, Character : 0..MaxCol]
OtherRequests ==
    {[Method |-> "GET", Decodes |-> TRUE, RepoID |-> "1", FilePath |-> "a.go",
      Line |-> 0, Character |-> 0],
     [Method |-> "POST", Decodes |-> FALSE, RepoID |-> "", FilePath |-> "",
      Line |-> 0, Character |-> 0],
     [Method |-> "POST", Decodes |-> TRUE, RepoID |-> "", FilePath |-> "a.go",
      Line |-> 0, Character |-> 0],
     [Method |-> "POST", Decodes |-> TRUE, RepoID |-> "1", FilePath |-> "",
      Line |-> 0, Character |-> 0],
     [Method |-> "POST", Decodes |-> TRUE, RepoID |-> "9", FilePath |-> "a.go",
      Line |-> 0, Character |-> 0],
     [Method |-> "POST", Decodes |-> TRUE, RepoID |-> "x", FilePath |-> "a.go",
      Line |-> 0, Character |-> 0]}
Requests == ValidRequests \cup OtherRequests

NoRequest ==
    [Method |-> "", Decodes |-> FALSE, RepoID |-> "", FilePath |-> "",
     Line |-> 0, Character |-> 0]
NoScip == [ran |-> FALSE, err |-> "", defs |-> << >>, from |-> << >>]
\* The locals of one GetDefinition call, and what it has observed so far:
\* calls is the sequence of calls it made on its collaborators, outbound the
\* engine call it has in flight ("" for none), cancelled whether the
\* context of its http.Request is done.
NoLocals ==
    [repoID |-> 0, repoInfo |-> Repository(0), site |-> "", index |-> << >>,
     scip |-> NoScip, symbol |-> << >>, results |-> << >>, searched |-> FALSE,
     engineErr |-> FALSE, calls |-> << >>, outbound |-> "", cancelled |-> FALSE]
NoResponse == [status |-> 0, err |-> "", body |-> << >>]

\* The RepoIDs an administrator registers.
RepoIDs == {1}

Init ==
    /\ engineKind \in {"zoekt", "ripgrep"}
    /\ repoMap = [id \in RepoIDs |-> Repository(id)]
    /\ disk = [p \in {ScipPath(Repository(1))} |-> NoFile]
    /\ ScipCache = << >>
    /\ pc = [w \in Workers |-> "idle"]
    /\ req = [w \in Workers |-> NoRequest]
    /\ loc = [w \in Workers |-> NoLocals]
    /\ resp = [w \in Workers |-> NoResponse]
    /\ fnIn = [op |-> "none"]
    /\ fnOut = [done |-> FALSE]

Call(op, arg) == [op |-> op, arg |-> arg]
Called(w, op, arg) == Append(loc[w].calls, Call(op, arg))

\* The request ends: the handler writes the response.
Finish(w, defs, err) ==
    /\ pc' = [pc EXCEPT ![w] = "done"]
    /\ resp' = [resp EXCEPT ![w] = Respond(defs, err)]

\* FieldsMissing with the test of filePath left out.
FieldsMissing_RepoIDOnly(r) == r.RepoID = ""

\* if req.RepoID == "" || req.FilePath == "" (handler.go:28)
FieldsMissing(r) == r.RepoID = "" \/ r.FilePath = ""

\* GetDefinitionHandler up to the call of Service.GetDefinition: the method
\* check, the body decode and the required-field check.
Receive(w, r) ==
    /\ pc[w] = "idle"
    /\ req' = [req EXCEPT ![w] = r]
    /\ loc' = [loc EXCEPT ![w] = NoLocals]
    /\ IF r.Method # "POST"
       THEN /\ pc' = [pc EXCEPT ![w] = "done"]
            /\ resp' = [resp EXCEPT ![w] =
                 [status |-> StatusMethodNotAllowed, err |-> "method", body |-> << >>]]
       ELSE IF ~r.Decodes
       THEN /\ pc' = [pc EXCEPT ![w] = "done"]
            /\ resp' = [resp EXCEPT ![w] =
                 [status |-> StatusBadRequest, err |-> "body", body |-> << >>]]
       ELSE IF FieldsMissing(r)
       THEN /\ pc' = [pc EXCEPT ![w] = "done"]
            /\ resp' = [resp EXCEPT ![w] =
                 [status |-> StatusBadRequest, err |-> "fields", body |-> << >>]]
       ELSE /\ pc' = [pc EXCEPT ![w] = "GetRepoID"]
            /\ UNCHANGED resp
    /\ UNCHANGED <<engineKind, repoMap, disk, ScipCache, fnVars>>

\* A worker takes one of the drawn requests.
HandleRequest(w) == \E r \in Requests : Receive(w, r)

\* GetDefinition, service.go:44-47.
ResolveRepoID(w) ==
    /\ pc[w] = "GetRepoID"
    /\ LET id == GetRepoIDByString(repoMap, req[w].RepoID)
       IN  /\ loc' = [loc EXCEPT ![w].repoID = id,
                                 ![w].calls = Called(w, "GetRepoIDByString", "")]
           /\ IF id = 0 THEN Finish(w, << >>, "repo not found")
              ELSE /\ pc' = [pc EXCEPT ![w] = "GetRepo"]
                   /\ UNCHANGED resp
    /\ UNCHANGED <<engineKind, repoMap, disk, ScipCache, req, fnVars>>

\* GetDefinition, service.go:49-54.
LookupRepo(w) ==
    /\ pc[w] = "GetRepo"
    /\ LET r == GetRepo(repoMap, loc[w].repoID)
       IN  /\ loc' = [loc EXCEPT ![w].repoInfo = r.repo,
                                 ![w].calls = Called(w, "GetRepo", "")]
           /\ IF ~r.ok THEN Finish(w, << >>, "repo not found")
              ELSE /\ pc' = [pc EXCEPT ![w] = "CacheProbe"]
                   /\ UNCHANGED resp
    /\ UNCHANGED <<engineKind, repoMap, disk, ScipCache, req, fnVars>>

\* CacheHit with a cache that never answers.
CacheHit_NeverFound(cache, path) == FALSE

\* found of ScipCache.Get(scipPath): entries are stored with no expiration
\* and nothing deletes them, so a key is found exactly when it was set.
CacheHit(cache, path) == path \in DOMAIN cache

\* GetDefinition, service.go:58: a cached index sends the request into
\* getDefinitionFromSCIP, whose result is returned as it is (line 59).
CacheProbe(w) ==
    /\ pc[w] = "CacheProbe"
    /\ LET found == CacheHit(ScipCache, ScipPath(loc[w].repoInfo))
       IN  /\ loc' = [loc EXCEPT ![w].site = IF found THEN "cached" ELSE "",
                                 ![w].calls = Called(w, "ScipCache.Get",
                                                     IF found THEN "hit" ELSE "miss")]
           /\ pc' = [pc EXCEPT ![w] = IF found THEN "ScipGet" ELSE "Stat"]
    /\ UNCHANGED <<engineKind, repoMap, disk, ScipCache, req, resp, fnVars>>

\* GetDefinition, service.go:62: the file exists, so getDefinitionFromSCIP is
\* called (line 64); otherwise the fallback is.
Stat(w) ==
    /\ pc[w] = "Stat"
    /\ LET file == disk[ScipPath(loc[w].repoInfo)]
           ok == StatOK(file)
       IN  /\ loc' = [loc EXCEPT ![w].site = IF ok THEN "stat" ELSE "",
                                 ![w].calls = Called(w, "os.Stat",
                                                     IF file.state = "missing"
                                                     THEN "missing" ELSE "exists")]
           /\ pc' = [pc EXCEPT ![w] = IF ok THEN "ScipGet" ELSE "Blob"]
    /\ UNCHANGED <<engineKind, repoMap, disk, ScipCache, req, resp, fnVars>>

\* ScipReturn with the fallback entered whatever the semantic result is.
ScipReturn_AlwaysFallsBack(w, result) ==
    /\ pc' = [pc EXCEPT ![w] = "Blob"]
    /\ UNCHANGED resp

\* What GetDefinition does with the result of getDefinitionFromSCIP: at line
\* 59 it returns it; at lines 64-69 it returns a non-empty list and otherwise
\* goes on to the fallback.
ScipReturn(w, result) ==
    IF loc[w].site = "cached" THEN Finish(w, result.defs, result.err)
    ELSE IF result.err = "" /\ Len(result.defs) > 0 THEN Finish(w, result.defs, "")
    ELSE /\ pc' = [pc EXCEPT ![w] = "Blob"]
         /\ UNCHANGED resp

ScipRan(result) ==
    [ran |-> TRUE, err |-> result.err, defs |-> result.defs, from |-> result.from]

\* getDefinitionFromSCIP, service.go:151-152 and, on a hit, 164-209.
ScipGet(w) ==
    /\ pc[w] = "ScipGet"
    /\ LET path == ScipPath(loc[w].repoInfo)
       IN  IF CacheHit(ScipCache, path)
           THEN LET result == ScipLookup(ScipCache[path], req[w].FilePath,
                                         req[w].Line, req[w].Character, req[w].RepoID)
                IN  /\ loc' = [loc EXCEPT ![w].index = ScipCache[path],
                                          ![w].scip = ScipRan(result),
                                          ![w].calls = Called(w, "ScipCache.Get", "hit")]
                    /\ ScipReturn(w, result)
           ELSE /\ loc' = [loc EXCEPT ![w].calls = Called(w, "ScipCache.Get", "miss")]
                /\ pc' = [pc EXCEPT ![w] = "ScipRead"]
                /\ UNCHANGED resp
    /\ UNCHANGED <<engineKind, repoMap, disk, ScipCache, req, fnVars>>

\* getDefinitionFromSCIP, service.go:156-159: the file is read and parsed.
ScipRead(w) ==
    /\ pc[w] = "ScipRead"
    /\ LET r == readSCIPIndex(disk[ScipPath(loc[w].repoInfo)])
       IN  IF r.err # ""
           THEN LET result == [err |-> r.err, defs |-> << >>, from |-> << >>]
                IN  /\ loc' = [loc EXCEPT ![w].scip = ScipRan(result),
                                          ![w].calls = Called(w, "readSCIPIndex", r.err)]
                    /\ ScipReturn(w, result)
           ELSE /\ loc' = [loc EXCEPT ![w].index = r.index,
                                      ![w].calls = Called(w, "readSCIPIndex", "ok")]
                /\ pc' = [pc EXCEPT ![w] = "ScipSet"]
                /\ UNCHANGED resp
    /\ UNCHANGED <<engineKind, repoMap, disk, ScipCache, req, fnVars>>

\* getDefinitionFromSCIP, service.go:161-209: the parsed index is cached and
\* searched.
ScipSet(w) ==
    /\ pc[w] = "ScipSet"
    /\ LET path == ScipPath(loc[w].repoInfo)
           result == ScipLookup(loc[w].index, req[w].FilePath,
                                req[w].Line, req[w].Character, req[w].RepoID)
       IN  /\ ScipCache' = (path :> loc[w].index) @@ ScipCache
           /\ loc' = [loc EXCEPT ![w].scip = ScipRan(result),
                                 ![w].calls = Called(w, "ScipCache.Set", "")]
           /\ ScipReturn(w, result)
    /\ UNCHANGED <<engineKind, repoMap, disk, req, fnVars>>

\* getDefinitionFromSearch, service.go:77-100: the blob is read, the line is
\* found and the token under the cursor is extracted.
ReadBlob(w) ==
    /\ pc[w] = "Blob"
    /\ LET blob == GetFileContent(loc[w].repoInfo.RepoID, req[w].FilePath)
           symbol == extractWordAtPosition(LineText(blob.content, req[w].Line),
                                           req[w].Character)
       IN  /\ loc' = [loc EXCEPT ![w].symbol = symbol, ![w].searched = TRUE,
                                 ![w].calls = Called(w, "GetFileContent", blob.err)]
           /\ IF blob.err # "" THEN Finish(w, << >>, "read source")
              ELSE IF symbol = << >> THEN Finish(w, << >>, "no symbol at cursor")
              ELSE /\ pc' = [pc EXCEPT ![w] = "Query1"]
                   /\ UNCHANGED resp
    /\ UNCHANGED <<engineKind, repoMap, disk, ScipCache, req, fnVars>>

\* What one SearchContent call may return.
EngineOutcomes ==
    {[err |-> "engine", results |-> << >>]}
    \cup {[err |-> "", results |-> r] : r \in EngineResults}

\* getDefinitionFromSearch, service.go:119-144.
SearchReturn(w, out) ==
    IF out.err # "" THEN Finish(w, << >>, out.err)
    ELSE Finish(w, SearchEntries(out.results, 1, << >>,
                                 FormatUint(loc[w].repoInfo.RepoID)), "")

\* The outbound call behind Engine.SearchContent: the POST of
\* doZoektRequest or the rg child process of RipgrepEngine.SearchContent.
Outbound(kind) == IF kind = "zoekt" THEN "POST /api/search" ELSE "rg"

\* What SearchContent returned, as logged after the call.
Returned(out) ==
    Call("returned", IF out.err # "" THEN "error"
                     ELSE IF Len(out.results) = 0 THEN "empty" ELSE "results")

\* SearchContent is entered: the request is posted, or the child process
\* started. Neither is given the request's context.
SendQuery(w) ==
    /\ pc[w] \in {"Query1", "Query2"}
    /\ loc[w].outbound = ""
    /\ loc' = [loc EXCEPT ![w].outbound = Outbound(engineKind)]
    /\ UNCHANGED <<engineKind, repoMap, disk, ScipCache, pc, req, resp, fnVars>>

\* getDefinitionFromSearch, service.go:102-111: the first query returns.
Query1(w) ==
    /\ pc[w] = "Query1"
    /\ loc[w].outbound # ""
    /\ \E out \in EngineOutcomes :
        LET q == FirstQuery(engineKind, loc[w].symbol)
            again == RetriesQuery(engineKind, out.err, out.results)
        IN  /\ loc' = [loc EXCEPT ![w].results = out.results,
                                  ![w].engineErr = (out.err # ""),
                                  ![w].outbound = "",
                                  ![w].calls = Append(Called(w, "SearchContent", q.form),
                                                      Returned(out))]
            /\ IF again
               THEN /\ pc' = [pc EXCEPT ![w] = "Query2"]
                    /\ UNCHANGED resp
               ELSE SearchReturn(w, out)
    /\ UNCHANGED <<engineKind, repoMap, disk, ScipCache, req, fnVars>>

\* getDefinitionFromSearch, service.go:112-116: the whole-word query that
\* follows on the structural engine returns.
Query2(w) ==
    /\ pc[w] = "Query2"
    /\ loc[w].outbound # ""
    /\ \E out \in EngineOutcomes :
        /\ loc' = [loc EXCEPT ![w].results = out.results,
                              ![w].engineErr = (loc[w].engineErr \/ out.err # ""),
                              ![w].outbound = "",
                              ![w].calls = Append(Called(w, "SearchContent", "word"),
                                                  Returned(out))]
        /\ SearchReturn(w, out)
    /\ UNCHANGED <<engineKind, repoMap, disk, ScipCache, req, fnVars>>

\* The response has been written; the worker takes the next request.
Complete(w) ==
    /\ pc[w] = "done"
    /\ pc' = [pc EXCEPT ![w] = "idle"]
    /\ req' = [req EXCEPT ![w] = NoRequest]
    /\ loc' = [loc EXCEPT ![w] = NoLocals]
    /\ resp' = [resp EXCEPT ![w] = NoResponse]
    /\ UNCHANGED <<engineKind, repoMap, disk, ScipCache, fnVars>>

\* Outside the service: an indexer writes, replaces, damages or removes the
\* index file.
IndexFileChanges ==
    /\ \E p \in DOMAIN disk : \E f \in DiskFiles \ {disk[p]} :
        disk' = [disk EXCEPT ![p] = f]
    /\ UNCHANGED <<engineKind, repoMap, ScipCache, pc, req, loc, resp, fnVars>>

\* The client goes away or the server's deadline passes: the context of the
\* worker's http.Request is done. Neither the handler nor the service reads
\* that context, so nothing else changes.
CancelRequest(w) ==
    /\ pc[w] \notin {"idle", "done"}
    /\ ~loc[w].cancelled
    /\ loc' = [loc EXCEPT ![w].cancelled = TRUE,
                          ![w].calls = Called(w, "ctx.Done", "")]
    /\ UNCHANGED <<engineKind, repoMap, disk, ScipCache, pc, req, resp, fnVars>>

\* Provider.DeleteRepository: the row is deleted, the data directory (and
\* the index file in it) removed, and the map reloaded.
DeleteRepository ==
    /\ \E id \in DOMAIN repoMap :
        /\ repoMap' = [i \in DOMAIN repoMap \ {id} |-> repoMap[i]]
        /\ disk' = [disk EXCEPT ![ScipPath(repoMap[id])] = NoFile]
    /\ UNCHANGED <<engineKind, ScipCache, pc, req, loc, resp, fnVars>>

\* Provider.AddRepository with an ID that is not registered: the row is
\* inserted and the map reloaded; the data path derives from the ID.
AddRepository ==
    /\ \E id \in RepoIDs \ DOMAIN repoMap :
        repoMap' = (id :> Repository(id)) @@ repoMap
    /\ UNCHANGED <<engineKind, disk, ScipCache, pc, req, loc, resp, fnVars>>

Next ==
    \/ \E w \in DOMAIN pc : HandleRequest(w)
    \/ \E w \in DOMAIN pc : ResolveRepoID(w)
    \/ \E w \in DOMAIN pc : LookupRepo(w)
    \/ \E w \in DOMAIN pc : CacheProbe(w)
    \/ \E w \in DOMAIN pc : Stat(w)
    \/ \E w \in DOMAIN pc : ScipGet(w)
    \/ \E w \in DOMAIN pc : ScipRead(w)
    \/ \E w \in DOMAIN pc : ScipSet(w)
    \/ \E w \in DOMAIN pc : ReadBlob(w)
    \/ \E w \in DOMAIN pc : SendQuery(w)
    \/ \E w \in DOMAIN pc : Query1(w)
    \/ \E w \in DOMAIN pc : Query2(w)
    \/ \E w \in DOMAIN pc : Complete(w)
    \/ \E w \in DOMAIN pc : CancelRequest(w)
    \/ IndexFileChanges
    \/ DeleteRepository
    \/ AddRepository

Spec == Init /\ [][Next]_vars

\* ========================================================= SpecConc
\* Two handler goroutines serve lookups of one repo at the same time (net/http
\* runs each request on its own goroutine) while the index file is written,
\* replaced or removed. The requests are two cursors: one the indexes
\* resolve, one they do not.
ConcWorkers == {1, 2}
ConcRequests ==
    {[Method |-> "POST", Decodes |-> TRUE, RepoID |-> "1", FilePath |-> f.path,
      Line |-> 0, Character |-> f.char] :
        f \in {[path |-> "a.go", char |-> 1], [path |-> "b.py", char |-> 0]}}

InitConc ==
    /\ engineKind \in {"zoekt", "ripgrep"}
    /\ repoMap = [id \in RepoIDs |-> Repository(id)]
    /\ disk = [p \in {ScipPath(Repository(1))} |-> ValidFile(IndexV1)]
    /\ ScipCache = << >>
    /\ pc = [w \in ConcWorkers |-> "idle"]
    /\ req = [w \in ConcWorkers |-> NoRequest]
    /\ loc = [w \in ConcWorkers |-> NoLocals]
    /\ resp = [w \in ConcWorkers |-> NoResponse]
    /\ fnIn = [op |-> "none"]
    /\ fnOut = [done |-> FALSE]

HandleConcurrent(w) == \E r \in ConcRequests : Receive(w, r)

NextConc ==
    \/ \E w \in DOMAIN pc : HandleConcurrent(w)
    \/ \E w \in DOMAIN pc : ResolveRepoID(w)
    \/ \E w \in DOMAIN pc : LookupRepo(w)
    \/ \E w \in DOMAIN pc : CacheProbe(w)
    \/ \E w \in DOMAIN pc : Stat(w)
    \/ \E w \in DOMAIN pc : ScipGet(w)
    \/ \E w \in DOMAIN pc : ScipRead(w)
    \/ \E w \in DOMAIN pc : ScipSet(w)
    \/ \E w \in DOMAIN pc : ReadBlob(w)
    \/ \E w \in DOMAIN pc : SendQuery(w)
    \/ \E w \in DOMAIN pc : Query1(w)
    \/ \E w \in DOMAIN pc : Query2(w)
    \/ \E w \in DOMAIN pc : Complete(w)
    \/ IndexFileChanges

SpecConc == InitConc /\ [][NextConc]_vars

\* =========================================================== SpecRg
\* One run of RipgrepEngine.SearchContent (part_011:238-304): the rg child
\* process is started with its stdout on a pipe, a bufio.Scanner reads the
\* pipe line by line, then the process is waited on.

\* What a line of rg --json output is to the loop: a "match" message,
\* another message ("begin", "end", "summary"), a line that is not JSON, or
\* a line longer than bufio.MaxScanTokenSize, at which Scan returns false
\* with ErrTooLong and the loop ends with the pipe not at its end.
RgLineKinds == {"match", "other", "garbage", "toolong"}
RgOutputs == UNION {[1..n -> RgLineKinds] : n \in 0..MaxRgLines}
\* rg exits 0 with matches, 1 without, 2 on an error.
RgExitCodes == {0, 1, 2}

RgNew ==
    [done |-> FALSE, pc |-> "new", started |-> FALSE, read |-> 0, eof |-> FALSE,
     waited |-> FALSE, results |-> << >>, err |-> ""]

\* pipeFits: whether what the process still has to write when the reader
\* stops fits the pipe's buffer, so that the process can exit unread.
InitRg ==
    /\ ServiceIdle
    /\ fnIn \in [op : {"rg"}, output : RgOutputs, exit : RgExitCodes,
                 start : {"ok", "pipe error", "start error"}, pipeFits : BOOLEAN]
    /\ fnOut = RgNew

\* cmd.StdoutPipe() and cmd.Start(), each returning on its error.
RgStart ==
    /\ fnIn.op = "rg"
    /\ fnOut.pc = "new"
    /\ fnOut' = IF fnIn.start = "ok"
                THEN [fnOut EXCEPT !.pc = "scan", !.started = TRUE]
                ELSE [fnOut EXCEPT !.pc = "returned", !.done = TRUE,
                                   !.err = fnIn.start]
    /\ UNCHANGED <<svcVars, fnIn>>

\* One turn of for scanner.Scan() { ... }: the end of the stream or a line
\* too long ends the loop; a "match" message is appended to results; any
\* other line is skipped.
RgScan ==
    /\ fnIn.op = "rg"
    /\ fnOut.pc = "scan"
    /\ fnOut' =
        IF fnOut.read = Len(fnIn.output)
        THEN [fnOut EXCEPT !.pc = "wait", !.eof = TRUE]
        ELSE LET kind == fnIn.output[fnOut.read + 1]
             IN  IF kind = "toolong" THEN [fnOut EXCEPT !.pc = "wait"]
                 ELSE IF kind = "match"
                 THEN [fnOut EXCEPT !.read = @ + 1,
                                    !.results = Append(@, fnOut.read + 1)]
                 ELSE [fnOut EXCEPT !.read = @ + 1]
    /\ UNCHANGED <<svcVars, fnIn>>

\* What SearchContent returns after cmd.Wait(): exit code 1 is not an
\* error.
RgReturn(code, results) ==
    IF code \in {0, 1} THEN [results |-> results, err |-> ""]
    ELSE [results |-> << >>, err |-> "rg"]

\* cmd.Wait() returns once the process has exited; a process that still has
\* output to write which does not fit the pipe never exits.
RgWait ==
    /\ fnIn.op = "rg"
    /\ fnOut.pc = "wait"
    /\ fnOut.eof \/ fnIn.pipeFits
    /\ LET ret == RgReturn(fnIn.exit, fnOut.results)
       IN  fnOut' = [fnOut EXCEPT !.pc = "returned", !.done = TRUE,
                                  !.waited = TRUE, !.results = ret.results,
                                  !.err = ret.err]
    /\ UNCHANGED <<svcVars, fnIn>>

NextRg == RgStart \/ RgScan \/ RgWait

SpecRg == InitRg /\ [][NextRg]_vars

\* ===================================================== SpecRegistry
\* repo.Provider under concurrent administration (part_008): the rows of the
\* repositories table, the in-memory list and map rebuilt from them by
\* loadReposFromDB, the data directories, and the AddRepository and
\* DeleteRepository calls in flight, one step per statement that touches
\* shared state. The map is the variable repoMap; the rest is in fnOut.
Admins == {"a", "b"}
\* The ids callers pass; 0 is the id AddRepository refuses.
AdminIDs == {0, 1, 2}
AdminIdle == [pc |-> "idle", op |-> "", id |-> 0, err |-> ""]

\* ORDER BY name: the place of a repository's name in alphabetical order;
\* repository 2 is named before repository 1.
NameRank(id) == IF id = 2 THEN 1 ELSE 2
RECURSIVE RowsByName(_)
RowsByName(ids) ==
    IF ids = {} THEN << >>
    ELSE LET first == CHOOSE i \in ids : \A j \in ids : NameRank(i) <= NameRank(j)
         IN  <<Repository(first)>> \o RowsByName(ids \ {first})

\* LoadedMap without the reset of the map before the rows are loaded.
LoadedMap_NoReset(rows, old) == [id \in rows \cup DOMAIN old |-> Repository(id)]

\* loadReposFromDB: p.repoMap = make(...), then one entry per row.
LoadedMap(rows, old) == [id \in rows |-> Repository(id)]

InitRegistry ==
    /\ engineKind = "zoekt"
    /\ repoMap = << >>
    /\ disk = << >>
    /\ ScipCache = << >>
    /\ pc = << >>
    /\ req = << >>
    /\ loc = << >>
    /\ resp = << >>
    /\ fnIn = [op |-> "registry"]
    /\ fnOut = [done |-> FALSE, db |-> {}, repositories |-> << >>, dirs |-> {},
                admin |-> [c \in Admins |-> AdminIdle]]

RegistryFrame == UNCHANGED <<engineKind, disk, ScipCache, pc, req, loc, resp, fnIn>>

\* AddRepository up to the INSERT: id 0 is refused; the data directory is
\* made.
AdminAdd(c) ==
    /\ fnIn.op = "registry"
    /\ fnOut.admin[c].pc = "idle"
    /\ \E id \in AdminIDs :
        fnOut' = IF id = 0
                 THEN [fnOut EXCEPT !.admin[c] =
                         [pc |-> "idle", op |-> "add", id |-> id, err |-> "id 0"]]
                 ELSE [fnOut EXCEPT !.dirs = @ \cup {id},
                                    !.admin[c] =
                         [pc |-> "insert", op |-> "add", id |-> id, err |-> ""]]
    /\ UNCHANGED repoMap
    /\ RegistryFrame

\* The INSERT: repo_id is UNIQUE, so an id that has a row fails and
\* AddRepository returns the error; else it goes on to reload.
AdminInsert(c) ==
    /\ fnIn.op = "registry"
    /\ fnOut.admin[c].pc = "insert"
    /\ LET id == fnOut.admin[c].id
       IN  fnOut' = IF id \in fnOut.db
                    THEN [fnOut EXCEPT !.admin[c].pc = "idle",
                                       !.admin[c].err = "exists"]
                    ELSE [fnOut EXCEPT !.db = @ \cup {id},
                                       !.admin[c].pc = "reload"]
    /\ UNCHANGED repoMap
    /\ RegistryFrame

\* DeleteRepository up to the DELETE: GetRepo reads the map.
AdminDelete(c) ==
    /\ fnIn.op = "registry"
    /\ fnOut.admin[c].pc = "idle"
    /\ \E id \in AdminIDs :
        fnOut' = IF GetRepo(repoMap, id).ok
                 THEN [fnOut EXCEPT !.admin[c] =
                         [pc |-> "delete", op |-> "delete", id |-> id, err |-> ""]]
                 ELSE [fnOut EXCEPT !.admin[c] =
                         [pc |-> "idle", op |-> "delete", id |-> id, err |-> "not found"]]
    /\ UNCHANGED repoMap
    /\ RegistryFrame

\* The DELETE: with no row affected the map is reloaded and an error
\* returned; else the data directory is removed before the reload.
AdminDeleteRow(c) ==
    /\ fnIn.op = "registry"
    /\ fnOut.admin[c].pc = "delete"
    /\ LET id == fnOut.admin[c].id
       IN  fnOut' = IF id \notin fnOut.db
                    THEN [fnOut EXCEPT !.admin[c].pc = "reload",
                                       !.admin[c].err = "no row"]
                    ELSE [fnOut EXCEPT !.db = @ \ {id}, !.dirs = @ \ {id},
                                       !.admin[c].pc = "reload"]
    /\ UNCHANGED repoMap
    /\ RegistryFrame

\* loadReposFromDB under the write lock: the rows are queried and list and
\* map rebuilt from them; the call returns.
AdminReload(c) ==
    /\ fnIn.op = "registry"
    /\ fnOut.admin[c].pc = "reload"
    /\ repoMap' = LoadedMap(fnOut.db, repoMap)
    /\ fnOut' = [fnOut EXCEPT !.repositories = RowsByName(DOMAIN repoMap'),
                              !.admin[c].pc = "idle"]
    /\ RegistryFrame

NextRegistry ==
    \/ \E c \in Admins : AdminAdd(c)
    \/ \E c \in Admins : AdminInsert(c)
    \/ \E c \in Admins : AdminDelete(c)
    \/ \E c \in Admins : AdminDeleteRow(c)
    \/ \E c \in Admins : AdminReload(c)

SpecRegistry == InitRegistry /\ [][NextRegistry]_vars

\* ========================================================= SpecBlob
\* core.Service.GetFileContent with its go-cache entries, beside the
\* registry calls that add and delete repositories. The registry is
\* repoMap; the cache and the last call's outcome are in fnOut.

BlobIDs == {1, 2}
BlobPaths == {"a.go", "b.py"}
\* The source directories an administrator registers, and the files of
\* the tree at HEAD of each.
SourcePaths == {"t1", "t2"}
Trees ==
    [s \in SourcePaths |->
        IF s = "t1" THEN [p \in {"a.go"} |-> "a.go at t1"]
        ELSE [p \in {"a.go", "b.py"} |-> p \o " at t2"]]

\* fmt.Sprintf("blob:%d:%s", repoID, relPath)
blobCacheKey(repoID, relPath) == <<"blob", repoID, relPath>>

NoBlobCall == [op |-> "", repoID |-> 0, relPath |-> "", registered |-> "",
               hit |-> FALSE, err |-> "", content |-> ""]

InitBlob ==
    /\ ServiceIdle
    /\ fnIn = [op |-> "blob"]
    /\ fnOut = [done |-> FALSE, cache |-> << >>, last |-> NoBlobCall]

BlobFrame == UNCHANGED <<engineKind, disk, ScipCache, pc, req, loc, resp, fnIn>>

\* GetFileContent(repoID, relPath): a cache entry under the key is
\* returned as it is; otherwise the repository is looked up, the file is
\* read from the tree at HEAD of its SourcePath, and the content is cached.
\* last.registered records the SourcePath registered under repoID at the
\* time of the call ("" for none).
BlobGet(repoID, relPath) ==
    /\ fnIn.op = "blob"
    /\ LET key == blobCacheKey(repoID, relPath)
           registered == IF repoID \in DOMAIN repoMap
                         THEN repoMap[repoID].SourcePath ELSE ""
           call == [NoBlobCall EXCEPT !.op = "GetFileContent",
                                      !.repoID = repoID, !.relPath = relPath,
                                      !.registered = registered]
       IN  IF key \in DOMAIN fnOut.cache
           THEN fnOut' = [fnOut EXCEPT !.done = TRUE,
                            !.last = [call EXCEPT !.hit = TRUE,
                                                  !.content = fnOut.cache[key]]]
           ELSE IF repoID \notin DOMAIN repoMap
           THEN fnOut' = [fnOut EXCEPT !.done = TRUE,
                            !.last = [call EXCEPT !.err = "repo not found"]]
           ELSE IF relPath \notin DOMAIN Trees[registered]
           THEN fnOut' = [fnOut EXCEPT !.done = TRUE,
                            !.last = [call EXCEPT !.err = "file not found"]]
           ELSE LET content == Trees[registered][relPath]
                IN  fnOut' = [fnOut EXCEPT !.done = TRUE,
                                !.cache = (key :> content) @@ @,
                                !.last = [call EXCEPT !.content = content]]
    /\ UNCHANGED repoMap
    /\ BlobFrame

\* DeleteRepository(id): the row, the map entry and the data directory go;
\* the cache of core.Service is not touched.
BlobDelete(id) ==
    /\ fnIn.op = "blob"
    /\ id \in DOMAIN repoMap
    /\ repoMap' = [i \in DOMAIN repoMap \ {id} |-> repoMap[i]]
    /\ fnOut' = [fnOut EXCEPT !.last = [NoBlobCall EXCEPT !.op = "DeleteRepository",
                                                          !.repoID = id]]
    /\ BlobFrame

\* AddRepository(id, name, sourcePath) for an id that is not registered.
BlobAdd(id, sourcePath) ==
    /\ fnIn.op = "blob"
    /\ id \notin DOMAIN repoMap
    /\ repoMap' = (id :> [Repository(id) EXCEPT !.SourcePath = sourcePath])
                    @@ repoMap
    /\ fnOut' = [fnOut EXCEPT !.last = [NoBlobCall EXCEPT !.op = "AddRepository",
                                                          !.repoID = id]]
    /\ BlobFrame

\* A cache entry reaches its expiration (cache.New(5*time.Minute, ...)).
BlobExpire(key) ==
    /\ fnIn.op = "blob"
    /\ key \in DOMAIN fnOut.cache
    /\ fnOut' = [fnOut EXCEPT !.cache = [k \in DOMAIN fnOut.cache \ {key} |->
                                            fnOut.cache[k]]]
    /\ UNCHANGED repoMap
    /\ BlobFrame

NextBlob ==
    \/ \E id \in BlobIDs : \E p \in BlobPaths : BlobGet(id, p)
    \/ \E id \in BlobIDs : BlobDelete(id)
    \/ \E id \in BlobIDs : \E s \in SourcePaths : BlobAdd(id, s)
    \/ \E id \in BlobIDs : \E p \in BlobPaths : BlobExpire(blobCacheKey(id, p))

SpecBlob == InitBlob /\ [][NextBlob]_vars

\* ========================================================= SpecAuth
\* The admin routes of main, each wrapped in Handlers.AuthMiddleware. The
\* registry is repoMap; the configured token is fnIn.AdminToken; the ids
\* with a Zoekt index, the ids a SCIP or Zoekt file was registered for and
\* the last request's outcome are in fnOut. Header values and tokens are
\* sequences of characters.

HasPrefix(s, prefix) ==
    Len(s) >= Len(prefix) /\ SubSeq(s, 1, Len(prefix)) = prefix
TrimPrefix(s, prefix) ==
    IF HasPrefix(s, prefix) THEN SubSeq(s, Len(prefix) + 1, Len(s)) ELSE s

BearerPrefix == <<"B", "e", "a", "r", "e", "r", " ">>

\* The values of the -admin-token flag: not set, and two tokens.
AdminTokens == {<< >>, <<"s">>, <<"s", "t">>}
\* The values r.Header.Get("Authorization") returns ("" when absent).
AuthHeaders ==
    {<< >>, <<"s">>, BearerPrefix, BearerPrefix \o <<"s">>,
     BearerPrefix \o <<"t">>, BearerPrefix \o <<"s", "t">>,
     BearerPrefix \o <<" ", "s">>,
     <<"b", "e", "a", "r", "e", "r", " ", "s">>,
     <<"B", "e", "a", "r", "e", "r", "s">>}

\* AuthMiddleware with the token comparison left out.
AuthMiddleware_PrefixOnly(AdminToken, authHeader) ==
    AdminToken # << >> => HasPrefix(authHeader, BearerPrefix)

\* AuthMiddleware: TRUE when next(w, r) is called.
AuthMiddleware(AdminToken, authHeader) ==
    AdminToken # << >> =>
        /\ HasPrefix(authHeader, BearerPrefix)
        /\ TrimPrefix(authHeader, BearerPrefix) = AdminToken

\* An admin request: its Authorization header, the id of its path or body,
\* and whether id and body parse.
AdminRequests == [Authorization : AuthHeaders, id : BlobIDs, parses : BOOLEAN]
NoAdminRequest == [route |-> "", Authorization |-> << >>, status |-> 0,
                   ran |-> FALSE]

InitAuth ==
    /\ ServiceIdle
    /\ fnIn \in [op : {"auth"}, AdminToken : AdminTokens]
    /\ fnOut = [done |-> FALSE, zoekt |-> {}, files |-> {},
                last |-> NoAdminRequest]

\* What the handlers leave behind: the registry, the indexed ids, the
\* registered index files, and the status written.
AdminOutcome(repos, zoekt, files, status) ==
    [repos |-> repos, zoekt |-> zoekt, files |-> files, status |-> status]
AdminUnchanged(status) == AdminOutcome(repoMap, fnOut.zoekt, fnOut.files, status)

HandleAdd(r) ==
    IF ~r.parses THEN AdminUnchanged(StatusBadRequest)
    ELSE IF r.id \in DOMAIN repoMap THEN AdminUnchanged(StatusInternalServerError)
    ELSE AdminOutcome((r.id :> Repository(r.id)) @@ repoMap,
                      fnOut.zoekt, fnOut.files, StatusOK)

HandleDelete(r) ==
    IF ~r.parses THEN AdminUnchanged(StatusBadRequest)
    ELSE IF r.id \notin DOMAIN repoMap THEN AdminUnchanged(StatusInternalServerError)
    ELSE AdminOutcome([i \in DOMAIN repoMap \ {r.id} |-> repoMap[i]],
                      fnOut.zoekt, {f \in fnOut.files : f[2] # r.id}, StatusOK)

\* HandleIndex answers 202 and indexes in a goroutine, which finds the
\* repository or logs an error.
HandleIndex(r) ==
    IF ~r.parses THEN AdminUnchanged(StatusBadRequest)
    ELSE AdminOutcome(repoMap,
                      IF r.id \in DOMAIN repoMap THEN fnOut.zoekt \cup {r.id}
                      ELSE fnOut.zoekt,
                      fnOut.files, StatusAccepted)

\* HandleRegisterScip and HandleRegisterZoekt: the provider registers the
\* file for a repository it knows.
HandleRegister(kind, r) ==
    IF ~r.parses THEN AdminUnchanged(StatusBadRequest)
    ELSE IF r.id \notin DOMAIN repoMap THEN AdminUnchanged(StatusInternalServerError)
    ELSE AdminOutcome(repoMap, fnOut.zoekt, fnOut.files \cup {<<kind, r.id>>},
                      StatusOK)

HandleListAdmin(r) == AdminUnchanged(StatusOK)

\* AuthMiddleware(next) serving r: 401 without calling next, or next.
Protected(route, r, next) ==
    /\ fnIn.op = "auth"
    /\ LET pass == AuthMiddleware(fnIn.AdminToken, r.Authorization)
           out == IF pass THEN next ELSE AdminUnchanged(StatusUnauthorized)
       IN  /\ repoMap' = out.repos
           /\ fnOut' = [fnOut EXCEPT !.done = TRUE, !.zoekt = out.zoekt,
                          !.files = out.files,
                          !.last = [route |-> route,
                                    Authorization |-> r.Authorization,
                                    status |-> out.status, ran |-> pass]]
    /\ UNCHANGED <<engineKind, disk, ScipCache, pc, req, loc, resp, fnIn>>

ServeListAdmin == \E r \in AdminRequests : Protected("list", r, HandleListAdmin(r))
ServeAdd == \E r \in AdminRequests : Protected("add", r, HandleAdd(r))
ServeDelete == \E r \in AdminRequests : Protected("delete", r, HandleDelete(r))
ServeIndex == \E r \in AdminRequests : Protected("index", r, HandleIndex(r))
ServeRegisterScip ==
    \E r \in AdminRequests : Protected("scip", r, HandleRegister("scip", r))
ServeRegisterZoekt ==
    \E r \in AdminRequests : Protected("zoekt-file", r, HandleRegister("zoekt", r))

NextAuth ==
    \/ ServeListAdmin
    \/ ServeAdd
    \/ ServeDelete
    \/ ServeIndex
    \/ ServeRegisterScip
    \/ ServeRegisterZoekt

SpecAuth == InitAuth /\ [][NextAuth]_vars

\* ========================================================= SpecRefs
\* Service.GetReferences, which GetReferencesHandler calls, is not among the
\* sources; it is modelled from the specification (4.2 cross-document
\* resolution, 4.4 resolution algorithm): the shape of GetDefinition with
\* kind = "reference".

\* IsWantedReference with the role test of the definition lookup.
IsWantedReference_BitRequired(occ, symbol) ==
    occ.Symbol = symbol /\ IsDefinitionRole(occ.SymbolRoles)

\* "include when kind==reference iff it is not set"
IsWantedReference(occ, symbol) ==
    occ.Symbol = symbol /\ ~IsDefinitionRole(occ.SymbolRoles)

ReferencePairs(index, symbol) ==
    LET Keep(p) == IsWantedReference(p.occ, symbol)
    IN  SelectSeq(IndexPairs(index, Len(index)), Keep)

\* Steps 2a-2c of the resolution algorithm for kind = "reference".
ReferencesLookup(index, filePath, line, char, repoIDStr) ==
    LET d == TargetDoc(index, filePath)
        symbol == IF d = 0 THEN "" ELSE findSymbolAtPosition(index[d], line, char)
        m == IF symbol = "" THEN << >> ELSE ReferencePairs(index, symbol)
    IN  [i \in 1..Len(m) |->
            [ScipEntry(m[i].path, m[i].occ, repoIDStr) EXCEPT !.Kind = "reference"]]

\* Step 3d for kind = "reference": one entry per match line, capped.
ReferenceSearchEntries(results, repoIDStr) ==
    LET es == SearchEntries(results, 1, << >>, repoIDStr)
    IN  [i \in 1..Len(es) |-> [es[i] EXCEPT !.Kind = "reference"]]

\* Steps 2d-4: the semantic result when it is not empty, else the fallback's.
GetReferences(index, filePath, line, char, results, repoIDStr) ==
    LET sem == ReferencesLookup(index, filePath, line, char, repoIDStr)
    IN  IF Len(sem) > 0 THEN [source |-> "scip", refs |-> sem]
        ELSE [source |-> "search", refs |-> ReferenceSearchEntries(results, repoIDStr)]

\* What the engine returns to the fallback of a drawn references lookup.
DrawnMatches == {<< >>, <<Match(1, "up"), Match(2, "up")>>}

InitRefs ==
    /\ ServiceIdle
    /\ fnIn \in {[op |-> "refs", index |-> ix, at |-> cur, matches |-> ms] :
                    ix \in DrawnIndexes, cur \in DrawnCursors, ms \in DrawnMatches}
    /\ fnOut = [done |-> FALSE]

ApplyRefs ==
    /\ fnIn.op = "refs"
    /\ ~fnOut.done
    /\ fnOut' = [done |-> TRUE,
                 out |-> GetReferences(fnIn.index, fnIn.at.filePath, fnIn.at.line,
                                       fnIn.at.char, fnIn.matches, "1")]
    /\ UNCHANGED <<svcVars, fnIn>>

NextRefs == ApplyRefs

SpecRefs == InitRefs /\ [][NextRefs]_vars

\* ================================================================ claims
RangeOf(seq) == {seq[i] : i \in 1..Len(seq)}
ScipDone == fnIn.op = "scip" /\ fnOut.done
WordDone == fnIn.op = "word" /\ fnOut.done

\* C1: every entry of the semantic result built from an occurrence with a
\* 4-element range [sl, sc, el, ec] has the range startLine = sl+1,
\* startColumn = sc, endLine = el+1, endColumn = ec; the entries correspond
\* one to one, in order, to occurrences of the index.
C1_MultiLineRangeMapped ==
    ScipDone =>
        LET defs == fnOut.out.defs
            from == fnOut.out.from
        IN  /\ Len(defs) = Len(from)
            /\ \A i \in 1..Len(defs) :
                LET r == from[i].occ.Range
                IN  /\ \E d \in 1..Len(fnIn.index) :
                        /\ fnIn.index[d].RelativePath = from[i].path
                        /\ from[i].occ \in RangeOf(fnIn.index[d].Occurrences)
                    /\ Len(r) = 4 =>
                        defs[i].Range = [StartLine |-> r[1] + 1, StartColumn |-> r[2],
                                         EndLine |-> r[3] + 1, EndColumn |-> r[4]]

\* C1 witness: a result holds an entry built from a 4-element range that
\* spans two lines.
C1_Witness ==
    /\ ScipDone
    /\ \E i \in 1..Len(fnOut.out.defs) :
        /\ Len(fnOut.out.from[i].occ.Range) = 4
        /\ fnOut.out.from[i].occ.Range[1] < fnOut.out.from[i].occ.Range[3]
        /\ fnOut.out.defs[i].Range.EndLine = fnOut.out.from[i].occ.Range[3] + 1

\* C2: every entry of the semantic result built from an occurrence with a
\* 3-element range [sl, sc, ec] has startLine = endLine = sl+1,
\* startColumn = sc, endColumn = ec.
C2_SingleLineRangeMapped ==
    ScipDone =>
        \A i \in 1..Len(fnOut.out.defs) :
            LET r == fnOut.out.from[i].occ.Range
            IN  Len(r) = 3 =>
                    fnOut.out.defs[i].Range =
                        [StartLine |-> r[1] + 1, StartColumn |-> r[2],
                         EndLine |-> r[1] + 1, EndColumn |-> r[3]]

\* C2 witness: a result holds an entry built from a 3-element range whose
\* end column differs from its start column.
C2_Witness ==
    /\ ScipDone
    /\ \E i \in 1..Len(fnOut.out.defs) :
        /\ Len(fnOut.out.from[i].occ.Range) = 3
        /\ fnOut.out.from[i].occ.Range[2] < fnOut.out.from[i].occ.Range[3]
        /\ fnOut.out.defs[i].Range.EndColumn = fnOut.out.from[i].occ.Range[3]

\* C3 (as claimed): every entry of every response has source "scip" or
\* "search" and kind "definition" or "reference".
C3_KindsRestricted ==
    \A w \in DOMAIN pc :
        pc[w] = "done" =>
            \A i \in 1..Len(resp[w].body) :
                /\ resp[w].body[i].Source \in {"scip", "search"}
                /\ resp[w].body[i].Kind \in {"definition", "reference"}

SearchCalls(w) == {i \in 1..Len(loc[w].calls) : loc[w].calls[i].op = "SearchContent"}
ProbeCalls(w) == {i \in 1..Len(loc[w].calls) : loc[w].calls[i].op = "ScipCache.Get"}
ScipNonEmpty(w) ==
    loc[w].scip.ran /\ loc[w].scip.err = "" /\ Len(loc[w].scip.defs) > 0

\* C4: within one request the semantic index is probed before any engine
\* call, and once the semantic probe has returned a non-empty result the
\* request makes no engine call and answers with that result.
C4_SemanticFirstNoEngine ==
    \A w \in DOMAIN pc :
        /\ \A j \in SearchCalls(w) : \E i \in ProbeCalls(w) : i < j
        /\ ScipNonEmpty(w) =>
            /\ SearchCalls(w) = {}
            /\ ~loc[w].searched
            /\ pc[w] = "done"
            /\ resp[w] = [status |-> StatusOK, err |-> "", body |-> loc[w].scip.defs]

\* C4 witness: a request has ended with a non-empty semantic result after
\* loading the index from the file.
C4_Witness ==
    \E w \in DOMAIN pc :
        /\ pc[w] = "done"
        /\ ScipNonEmpty(w)
        /\ loc[w].site = "stat"
        /\ Len(resp[w].body) > 0

ScipMissed(w) ==
    /\ loc[w].scip.ran
    /\ \/ loc[w].scip.err \in {"doc not found", "symbol not found"}
       \/ loc[w].scip.err = "" /\ Len(loc[w].scip.defs) = 0

\* C5 (as claimed): a request whose semantic path found an index but no
\* entry goes on to the text-search fallback and surfaces no error for the
\* miss, also when the index was already cached.
C5_SemanticMissFallsBack ==
    \A w \in DOMAIN pc :
        (pc[w] = "done" /\ ScipMissed(w)) =>
            /\ loc[w].searched
            /\ resp[w].err \notin {"doc not found", "symbol not found"}

\* C6: a request that found no cached index and no index file attempts no
\* index load, runs the fallback, does not fail for the missing index, and
\* returns only entries with source "search".
C6_NoIndexFallsBack ==
    \A w \in DOMAIN pc :
        Call("os.Stat", "missing") \in RangeOf(loc[w].calls) =>
            /\ Call("ScipCache.Get", "hit") \notin RangeOf(loc[w].calls)
            /\ \A c \in RangeOf(loc[w].calls) :
                c.op \notin {"readSCIPIndex", "ScipCache.Set"}
            /\ ~loc[w].scip.ran
            /\ pc[w] \in {"Blob", "Query1", "Query2", "done"}
            /\ pc[w] = "done" =>
                /\ loc[w].searched
                /\ resp[w].err \in {"", "read source", "no symbol at cursor", "engine"}
                /\ \A i \in 1..Len(resp[w].body) : resp[w].body[i].Source = "search"

\* C6 witness: a request that found no index file has ended with a non-empty
\* list from the fallback.
C6_Witness ==
    \E w \in DOMAIN pc :
        /\ pc[w] = "done"
        /\ Call("os.Stat", "missing") \in RangeOf(loc[w].calls)
        /\ resp[w].status = StatusOK
        /\ Len(resp[w].body) > 0

FallbackAnswered(w) ==
    pc[w] = "done" /\ loc[w].searched /\ resp[w].status = StatusOK

\* C7: a fallback lookup whose engine returned m_1..m_n answers with exactly
\* the entries of m_1..m_min(n,10), in that order.
C7_FallbackCappedInOrder ==
    \A w \in DOMAIN pc :
        FallbackAnswered(w) =>
            LET m == loc[w].results
                k == IF Len(m) < 10 THEN Len(m) ELSE 10
            IN  /\ Len(resp[w].body) = k
                /\ \A i \in 1..k :
                    /\ resp[w].body[i].FilePath = m[i].Path
                    /\ resp[w].body[i].Range.StartLine = m[i].LineNum

\* C7 witness: the engine returned more than 10 match lines, in descending
\* line order, and the response holds 10 entries.
C7_Witness ==
    \E w \in DOMAIN pc :
        /\ FallbackAnswered(w)
        /\ Len(loc[w].results) > 10
        /\ loc[w].results[1].LineNum > loc[w].results[2].LineNum
        /\ Len(resp[w].body) = 10

\* C8: every entry produced by the fallback has startLine = endLine = the
\* engine's line number of its match, startColumn = endColumn = 0, the
\* match's path, and source "search".
C8_FallbackEntryShape ==
    \A w \in DOMAIN pc :
        FallbackAnswered(w) =>
            \A i \in 1..Len(resp[w].body) :
                /\ i <= Len(loc[w].results)
                /\ resp[w].body[i].Range =
                       [StartLine |-> loc[w].results[i].LineNum, StartColumn |-> 0,
                        EndLine |-> loc[w].results[i].LineNum, EndColumn |-> 0]
                /\ resp[w].body[i].FilePath = loc[w].results[i].Path
                /\ resp[w].body[i].Source = "search"

\* C8 witness: a fallback response holds an entry for a match on a line
\* other than the first.
C8_Witness ==
    \E w \in DOMAIN pc :
        /\ FallbackAnswered(w)
        /\ \E i \in 1..Len(resp[w].body) :
            /\ resp[w].body[i].Range.StartLine > 1
            /\ resp[w].body[i].FilePath = "b.py"

\* C9 (as claimed): a request one of whose engine calls returned an error
\* ends with an error (500) and no result list.
C9_EngineErrorPropagates ==
    \A w \in DOMAIN pc :
        (pc[w] = "done" /\ loc[w].engineErr) =>
            /\ resp[w].status = StatusInternalServerError
            /\ resp[w].body = << >>

\* The maximal word-character runs of a line, as 0-based half-open column
\* intervals <<s, e>>.
MaximalRuns(line) ==
    {<<s, e>> \in (0..Len(line)) \X (0..Len(line)) :
        /\ s < e
        /\ \A i \in (s + 1)..e : isWordChar(line[i])
        /\ s = 0 \/ ~isWordChar(line[s])
        /\ e = Len(line) \/ ~isWordChar(line[e + 1])}

\* C10 (as claimed): for every maximal word-character run [s, e) of the line
\* and every column c with s <= c <= e, the token at c is that run, also
\* when e is the length of the line.
C10_TokenAtEveryColumnOfRun ==
    WordDone =>
        \A run \in MaximalRuns(fnIn.line) :
            (run[1] <= fnIn.column /\ fnIn.column <= run[2]) =>
                fnOut.out = SubSeq(fnIn.line, run[1] + 1, run[2])

\* ---------------------------------------------------------------- C11
\* Containment of a cursor in a producer range, as the specification words
\* it (3-element ranges expanded with endLine = startLine).
Covers(r, L, C) ==
    LET sl == r[1]
        sc == r[2]
        el == IF Len(r) = 3 THEN r[1] ELSE r[3]
        ec == IF Len(r) = 3 THEN r[3] ELSE r[4]
    IN  /\ sl <= L /\ L <= el
        /\ IF sl = el THEN sc <= C /\ C < ec
           ELSE IF L = sl THEN C >= sc
           ELSE IF L = el THEN C < ec
           ELSE TRUE

NonEmptyRange(r) ==
    IF Len(r) = 3 THEN r[2] < r[3]
    ELSE r[1] < r[3] \/ (r[1] = r[3] /\ r[2] < r[4])

\* The symbol the drawn cursor resolves to.
CursorSymbol ==
    LET d == TargetDoc(fnIn.index, fnIn.at.filePath)
    IN  IF d = 0 THEN ""
        ELSE findSymbolAtPosition(fnIn.index[d], fnIn.at.line, fnIn.at.char)

\* The i-th entry of the result fed back as a cursor: its file, its start
\* line turned 0-based again, its start column.
FedBack(i) ==
    LET e == fnOut.out.defs[i]
        d == TargetDoc(fnIn.index, e.FilePath)
    IN  IF d = 0 THEN ""
        ELSE findSymbolAtPosition(fnIn.index[d], e.Range.StartLine - 1,
                                  e.Range.StartColumn)

\* The i-th entry was built from an occurrence of the first document with
\* its path, its range is not empty, and no earlier occurrence of that
\* document with another symbol contains its start.
Unshadowed(i) ==
    LET p == fnOut.out.from[i]
        d == TargetDoc(fnIn.index, p.path)
    IN  /\ NonEmptyRange(p.occ.Range)
        /\ d # 0
        /\ \E k \in 1..Len(fnIn.index[d].Occurrences) :
            /\ fnIn.index[d].Occurrences[k] = p.occ
            /\ \A j \in 1..(k - 1) :
                LET o == fnIn.index[d].Occurrences[j]
                IN  Covers(o.Range, p.occ.Range[1], p.occ.Range[2])
                        => o.Symbol = p.occ.Symbol

\* C11 (as claimed): every location of a definition result, fed back as a
\* cursor, resolves to the symbol the lookup was made for.
C11_RoundTrip ==
    ScipDone => \A i \in 1..Len(fnOut.out.defs) : FedBack(i) = CursorSymbol

\* C11 (amended): a location of a definition result resolves, fed back as a
\* cursor, to the symbol the lookup was made for whenever its range is not
\* empty, its occurrence lies in the first document with that path, and no
\* earlier occurrence of that document with another symbol contains its
\* start.
C11_RoundTripUnshadowed ==
    ScipDone =>
        \A i \in 1..Len(fnOut.out.defs) :
            Unshadowed(i) => FedBack(i) = CursorSymbol

\* C11 witness: a result with two entries, both unshadowed, one of them
\* lying after an occurrence of another symbol.
C11_Witness ==
    /\ ScipDone
    /\ Len(fnOut.out.defs) >= 2
    /\ \A i \in 1..Len(fnOut.out.defs) : Unshadowed(i) /\ FedBack(i) = CursorSymbol
    /\ \E o \in RangeOf(fnIn.index[1].Occurrences) : o.Symbol # CursorSymbol

\* ---------------------------------------------------------------- C12
\* The positions <<document, occurrence>> of the index whose occurrence
\* carries the symbol and has the Definition bit (bit 0) set.
DefinitionPositions(index, symbol) ==
    {pos \in UNION {{<<d, k>> : k \in 1..Len(index[d].Occurrences)} :
                        d \in 1..Len(index)} :
        /\ index[pos[1]].Occurrences[pos[2]].Symbol = symbol
        /\ index[pos[1]].Occurrences[pos[2]].SymbolRoles % 2 = 1}

\* Document order, then occurrence order.
PositionBefore(a, b) == a[1] < b[1] \/ (a[1] = b[1] /\ a[2] < b[2])

\* C12: when the cursor resolves to a symbol S, the semantic result has
\* exactly one entry for each occurrence, in any document, whose symbol is S
\* and whose Definition bit is set - none for an occurrence without the bit
\* or with another symbol - in document order then occurrence order, equal
\* occurrences not merged.
C12_DefinitionsExactInOrder ==
    (ScipDone /\ CursorSymbol # "") =>
        LET P == DefinitionPositions(fnIn.index, CursorSymbol)
            defs == fnOut.out.defs
        IN  /\ fnOut.out.err = ""
            /\ Len(defs) = Cardinality(P)
            /\ \A pos \in P :
                LET i == Cardinality({q \in P : PositionBefore(q, pos)}) + 1
                    doc == fnIn.index[pos[1]]
                IN  /\ fnOut.out.from[i] =
                        [path |-> doc.RelativePath, occ |-> doc.Occurrences[pos[2]]]
                    /\ defs[i].FilePath = doc.RelativePath
                    /\ defs[i].Range.StartLine = doc.Occurrences[pos[2]].Range[1] + 1
                    /\ defs[i].Range.StartColumn = doc.Occurrences[pos[2]].Range[2]
                    /\ defs[i].Kind = "definition"
                    /\ defs[i].Source = "scip"

\* C12 witness: a result with entries from two documents, the first document
\* also holding an occurrence that is left out (another symbol, or the same
\* symbol without the Definition bit).
C12_Witness ==
    /\ ScipDone
    /\ CursorSymbol # ""
    /\ Len(fnOut.out.defs) >= 2
    /\ fnOut.out.defs[1].FilePath # fnOut.out.defs[Len(fnOut.out.defs)].FilePath
    /\ \E o \in RangeOf(fnIn.index[1].Occurrences) :
        o.Symbol # CursorSymbol \/ o.SymbolRoles % 2 = 0

\* ---------------------------------------------------------------- C13
RefsDone == fnIn.op = "refs" /\ fnOut.done

\* The positions of the occurrences that carry the symbol and do not have
\* the Definition bit set.
NonDefinitionPositions(index, symbol) ==
    {pos \in UNION {{<<d, k>> : k \in 1..Len(index[d].Occurrences)} :
                        d \in 1..Len(index)} :
        /\ index[pos[1]].Occurrences[pos[2]].Symbol = symbol
        /\ index[pos[1]].Occurrences[pos[2]].SymbolRoles % 2 = 0}

LacksField(w) ==
    /\ req[w].Method = "POST"
    /\ req[w].Decodes
    /\ (req[w].RepoID = "" \/ req[w].FilePath = "")

\* C14: a lookup request whose repoId or filePath is missing or empty is
\* answered 400 without the service being called: it makes no call on the
\* registry, the index cache, the index file, the blob reader or the engine.
C14_MissingFieldRejected ==
    \A w \in DOMAIN pc :
        (pc[w] \notin {"idle"} /\ LacksField(w)) =>
            /\ pc[w] = "done"
            /\ resp[w].status = StatusBadRequest
            /\ resp[w].body = << >>
            /\ loc[w].calls = << >>
            /\ ~loc[w].scip.ran
            /\ ~loc[w].searched

\* C14 witness: a request with an empty filePath has been rejected while the
\* index cache holds an index.
C14_Witness ==
    \E w \in DOMAIN pc :
        /\ pc[w] = "done"
        /\ LacksField(w)
        /\ req[w].RepoID # ""
        /\ resp[w].status = StatusBadRequest
        /\ DOMAIN ScipCache # {}

\* ---------------------------------------------------------------- C15
\* The request reached the service and ended without a repository: one of
\* the two registry reads did not find it.
RepoUnresolved(w) ==
    /\ pc[w] = "done"
    /\ Call("GetRepoIDByString", "") \in RangeOf(loc[w].calls)
    /\ loc[w].repoInfo.RepoID = 0

\* C15 (as claimed): a lookup whose repoId resolves to no registered
\* repository, also when the repository is deleted between the two registry
\* reads, is answered 404, and neither index nor engine is consulted.
C15_UnknownRepoNotFound ==
    \A w \in DOMAIN pc :
        RepoUnresolved(w) =>
            /\ resp[w].status = 404
            /\ ProbeCalls(w) = {}
            /\ SearchCalls(w) = {}

\* ---------------------------------------------------------------- C16
\* C16 (as claimed): a request whose index file exists but does not parse
\* ends there with an error (500); the fallback is not entered.
C16_CorruptIndexTerminal ==
    \A w \in DOMAIN pc :
        Call("readSCIPIndex", "unmarshal index") \in RangeOf(loc[w].calls) =>
            /\ pc[w] = "done"
            /\ resp[w].status = StatusInternalServerError
            /\ ~loc[w].searched

\* ---------------------------------------------------------------- C17
\* The fallback read the blob and found no token under the cursor.
NoTokenFound(w) ==
    /\ pc[w] = "done"
    /\ Call("GetFileContent", "") \in RangeOf(loc[w].calls)
    /\ loc[w].symbol = << >>

\* C17 (as claimed): a fallback that finds no token under the cursor ends
\* with 200 and an empty list, or with a 4xx, never with a 5xx, and submits
\* nothing to the engine.
C17_NoTokenNotServerError ==
    \A w \in DOMAIN pc :
        NoTokenFound(w) =>
            /\ \/ resp[w].status = StatusOK /\ resp[w].body = << >>
               \/ resp[w].status \in 400..499
            /\ SearchCalls(w) = {}

C19_CancellationReachesOutbound ==
    \A w \in DOMAIN pc :
        \A i \in 1..Len(loc[w].calls) : \A j \in (i + 1)..Len(loc[w].calls) :
            (loc[w].calls[i].op = "ctx.Done" /\ loc[w].calls[j].op = "returned")
                => loc[w].calls[j].arg = "cancelled"

\* ---------------------------------------------------------------- C20
HasBaseMarkers(r) ==
    /\ "lineBase" \in DOMAIN r
    /\ "columnBase" \in DOMAIN r
    /\ r.lineBase = 1
    /\ r.columnBase = 0

\* C20 (as claimed): every successful lookup response carries lineBase = 1
\* and columnBase = 0, at its top level or in the range of every entry.
C20_BaseMarkersPresent ==
    \A w \in DOMAIN pc :
        (pc[w] = "done" /\ resp[w].status = StatusOK) =>
            \/ HasBaseMarkers(resp[w])
            \/ /\ resp[w].body # << >>
               /\ \A i \in 1..Len(resp[w].body) :
                    HasBaseMarkers(resp[w].body[i].Range)

\* ---------------------------------------------------------------- C21
Installed(w) == Call("ScipCache.Set", "") \in RangeOf(loc[w].calls)

\* C21 (as claimed): of the lookups in progress, those that parsed the file
\* and installed the result installed identical indexes; and a lookup that
\* found the index in the cache when it started does not read the file.
C21_ParseOnceOrIdentical ==
    /\ \A v, w \in DOMAIN pc :
        (Installed(v) /\ Installed(w)) => loc[v].index = loc[w].index
    /\ \A w \in DOMAIN pc :
        loc[w].site = "cached" =>
            \A c \in RangeOf(loc[w].calls) : c.op \notin {"os.Stat", "readSCIPIndex"}

\* ---------------------------------------------------------------- C22
\* C22 (as claimed): no step replaces the index cached under a key with a
\* different index, also when two lookups load the file at the same time
\* and the file is replaced between their reads.
C22_InstalledValueNeverReplaced ==
    [][\A p \in DOMAIN ScipCache :
            p \in DOMAIN ScipCache' /\ ScipCache'[p] = ScipCache[p]]_vars

\* ---------------------------------------------------------------- C23
\* The worker is about to read an index file that is missing or does not
\* parse.
LoadFails(w) ==
    /\ pc[w] = "ScipRead"
    /\ disk[ScipPath(loc[w].repoInfo)].state # "valid"

\* C23: the step of a lookup whose index load fails leaves the index cache
\* as it was and installs nothing, so the path stays without entry and a
\* later lookup loads again; what the cache holds is always an index parsed
\* in full from a valid file.
C23_FailedLoadLeavesCache ==
    [][/\ \A p \in DOMAIN ScipCache' : ScipCache'[p] \in DiskIndexes
       /\ \A w \in DOMAIN pc :
            (LoadFails(w) /\ pc'[w] # pc[w]) =>
                /\ ScipCache' = ScipCache
                /\ pc'[w] # "ScipSet"
                /\ ~Installed(w)']_vars

\* C23 witness: a lookup has ended after a failed parse, and the path has no
\* entry in the cache.
C23_Witness ==
    \E w \in DOMAIN pc :
        /\ pc[w] = "done"
        /\ Call("readSCIPIndex", "unmarshal index") \in RangeOf(loc[w].calls)
        /\ ScipPath(loc[w].repoInfo) \notin DOMAIN ScipCache

\* ---------------------------------------------------------------- C24
\* The occurrences of the cursor's document that contain the cursor, by
\* their index.
CoveringHits ==
    LET doc == fnIn.index[TargetDoc(fnIn.index, fnIn.at.filePath)]
    IN  {k \in 1..Len(doc.Occurrences) :
            Covers(doc.Occurrences[k].Range, fnIn.at.line, fnIn.at.char)}

FirstCovering ==
    fnIn.index[TargetDoc(fnIn.index, fnIn.at.filePath)].Occurrences[Min(CoveringHits)]

NoSymbolReturned == fnOut.out.err = "symbol not found"

QueryForms(w) ==
    LET IsQuery(c) == c.op = "SearchContent"
        qs == SelectSeq(loc[w].calls, IsQuery)
    IN  [i \in 1..Len(qs) |-> qs[i].arg]
QueryReturns(w) ==
    LET IsReturn(c) == c.op = "returned"
        rs == SelectSeq(loc[w].calls, IsReturn)
    IN  [i \in 1..Len(rs) |-> rs[i].arg]

\* C25 (as claimed): on the structural engine the first query is sym:<token>
\* and the whole-word query follows if and only if the first succeeded with
\* zero results; on the regex engine the one query is the whole-word query;
\* no request submits more than two queries.
C25_QueryShaping ==
    \A w \in DOMAIN pc :
        (pc[w] = "done" /\ Len(QueryForms(w)) > 0) =>
            LET q == QueryForms(w)
                r == QueryReturns(w)
            IN  IF engineKind = "zoekt"
                THEN /\ q[1] = "sym"
                     /\ Len(q) <= 2
                     /\ Len(q) = 2 <=> r[1] = "empty"
                     /\ Len(q) = 2 => q[2] = "word"
                ELSE q = <<"word">>

\* ---------------------------------------------------------------- C26
\* The maximal word-character run of the line that contains the 0-based
\* column c, as a token.
RunAt(line, c) ==
    LET run == CHOOSE r \in MaximalRuns(line) : r[1] <= c /\ c < r[2]
    IN  SubSeq(line, run[1] + 1, run[2])

\* C26: the token at a column is the maximal word-character run containing
\* the column when its code point is a word character; else the run
\* containing column-1 when column > 0 and that code point is a word
\* character; else empty; and empty for a column below 0 or not below the
\* length of the line.
C26_WordAtReference ==
    WordDone =>
        LET line == fnIn.line
            c == fnIn.column
        IN  fnOut.out =
                IF c < 0 \/ c >= Len(line) THEN << >>
                ELSE IF isWordChar(line[c + 1]) THEN RunAt(line, c)
                ELSE IF c > 0 /\ isWordChar(line[c]) THEN RunAt(line, c - 1)
                ELSE << >>

\* C26 witness: the column holds a non-word code point after a run of two
\* word characters, and the token is that run.
C26_Witness ==
    /\ WordDone
    /\ fnIn.column >= 2
    /\ fnIn.column < Len(fnIn.line)
    /\ ~isWordChar(fnIn.line[fnIn.column + 1])
    /\ Len(fnOut.out) >= 2

\* ---------------------------------------------------------------- C27
\* The "match" messages among the first n lines of the output, by line.
RgMatches(n) ==
    LET IsMatch(i) == fnIn.output[i] = "match"
    IN  SelectSeq([i \in 1..n |-> i], IsMatch)

\* C27 (as claimed): in every run of the rg child process the stdout is at
\* its end before the process is waited on; a started process is waited on
\* before SearchContent returns; exit code 0 or 1 gives the collected
\* matches and no error, any other exit code an error and no results.
C27_RgDrainedThenWaited ==
    fnIn.op = "rg" =>
        /\ (fnOut.pc = "wait" \/ fnOut.waited) => fnOut.eof
        /\ (fnOut.pc = "returned" /\ fnOut.started) => fnOut.waited
        /\ fnOut.waited =>
            IF fnIn.exit \in {0, 1}
            THEN fnOut.err = "" /\ fnOut.results = RgMatches(fnOut.read)
            ELSE fnOut.err # "" /\ fnOut.results = << >>

\* ---------------------------------------------------------------- C28
RegistryQuiet == \A c \in Admins : fnOut.admin[c].pc = "idle"
ListIDs == {fnOut.repositories[i].RepoID : i \in 1..Len(fnOut.repositories)}

C29_BlobFromCurrentRegistration ==
    (fnIn.op = "blob" /\ fnOut.last.op = "GetFileContent") =>
        LET c == fnOut.last
        IN  /\ c.registered = "" => c.err # ""
            /\ (c.registered # "" /\ c.err = "") =>
                    /\ c.relPath \in DOMAIN Trees[c.registered]
                    /\ c.content = Trees[c.registered][c.relPath]

\* ---------------------------------------------------------------- C30
AuthExact == fnOut'.last.Authorization = BearerPrefix \o fnIn.AdminToken

\* C30: with a token configured, a request to an admin route whose
\* Authorization header is not "Bearer " followed by the token is answered
\* 401, its handler is not called, and registry, indexes and registered
\* files stay as they were; a request with exactly that header has its
\* handler called; with no token configured every request has its handler
\* called.
C30_AdminNeedsBearerToken ==
    [][fnIn.op = "auth" =>
        IF fnIn.AdminToken # << >> /\ ~AuthExact
        THEN /\ fnOut'.last.status = StatusUnauthorized
             /\ ~fnOut'.last.ran
             /\ repoMap' = repoMap
             /\ fnOut'.zoekt = fnOut.zoekt
             /\ fnOut'.files = fnOut.files
        ELSE /\ fnOut'.last.ran
             /\ fnOut'.last.status # StatusUnauthorized]_vars

\* C30 witness: with the token "st" configured, a repository was added, and
\* the last request, a delete carrying "Bearer s", was answered 401 with
\* the repository still registered.
C30_Witness ==
    /\ fnIn.op = "auth"
    /\ fnIn.AdminToken = <<"s", "t">>
    /\ fnOut.last.route = "delete"
    /\ fnOut.last.Authorization = BearerPrefix \o <<"s">>
    /\ fnOut.last.status = StatusUnauthorized
    /\ ~fnOut.last.ran
    /\ DOMAIN repoMap = {1}

====
